---------------------------- MODULE Spec2Model ----------------------------
(***************************************************************************)
(* Model of src/tg_self_analyze.py: the brace-depth object scanner, the     *)
(* conversation discovery and selection, the message indexer and the row   *)
(* correlator.                                                              *)
(*                                                                         *)
(* Texts are TLA+ strings; the character at Python index i of s is        *)
(* SubSeq(s, i+1, i+1).  TLA+ strings are ASCII, so the non-ASCII          *)
(* characters the source names are written with stand-ins that the inputs *)
(* use for nothing else:                                                   *)
(*     ~  U+FEFF (BOM)          _  U+00A0 (no-break space)                  *)
(*     ^  U+2009 (thin space)   |  U+202F (narrow no-break space)           *)
(* and the Cyrillic letters of the literals of is_saved_chat:              *)
(*     !  #  $  %  &  '  (  )  *  +   for                                  *)
(*     i  z  b  r  a  n  o  e  s  ya  (U+0438 U+0437 U+0431 U+0440 U+0430  *)
(*                                     U+043D U+043E U+0435 U+0441 U+044F) *)
(***************************************************************************)
EXTENDS Integers, Sequences, FiniteSets, TLC

VARIABLES
    pc,             \* position of the running call: "idle", a loop, "done"
    op,             \* the function the environment called
    raw,            \* list_all_chats / pick_chat_container: the input text
    chat_query,     \* pick_chat_container: name query (NoneStr: None)
    chat_id,        \* pick_chat_container: conversation id (NoneInt: None)
    i,              \* list_all_chats: loop offset
    k,              \* list_all_chats: number of conversations found
    out,            \* list_all_chats: conversations found, in scan order
    picked,         \* pick_chat_container: the (container, name) returned
    container_str,  \* collect_rows_from_container / stream_parse_...: input
    chat_name,      \* collect_rows_from_container: the conversation's name
    user_id,        \* collect_rows_from_container: author id (NoneInt: None)
    user_query,     \* collect_rows_from_container: name fragment (NoneStr)
    exact,          \* collect_rows_from_container: exact flag
    after,          \* stream_parse_messages_from_container: container_str[start:]
    idx,            \* stream_parse_messages_from_container: loop offset
    msgs,           \* stream_parse_messages_from_container: decoded objects
    last,           \* the locals (obj_str, idx2 / i2) and the offset of the
                    \* last call of stream_next_object made by a scan loop
    rows,           \* collect_rows_from_container: the rows returned
    err,            \* the exception the call ended with ("none": returned)
    iter,           \* history: iterations the running scan loop has made
    given           \* history: the parts the environment built its input from

vars == <<pc, op, raw, chat_query, chat_id, i, k, out, picked, container_str,
          chat_name, user_id, user_query, exact, after, idx, msgs, last, rows, err, iter,
          given>>

-----------------------------------------------------------------------------
(* Characters and strings *)

\* Python's None where an int is expected (ids are never negative here).
NoneInt == -1

\* Python's None where a str is expected: a string no input contains.
NoneStr == "<None>"

\* s[i] for a Python index 0 <= i < len(s).
Ch(s, p) == SubSeq(s, p + 1, p + 1)

\* s[a:b] for 0 <= a, b.
Slice(s, a, b) == SubSeq(s, a + 1, IF b > Len(s) THEN Len(s) ELSE b)

\* c in S, for a one-character c and a string S of candidates.
InChars(c, S) == \E j \in 1..Len(S) : SubSeq(S, j, j) = c

\* sub in s (Python's substring test).
Contains(s, sub) ==
    \E a \in 0..(Len(s) - Len(sub)) : Slice(s, a, a + Len(sub)) = sub

\* s.startswith(p)
StartsWith(s, p) == Len(p) <= Len(s) /\ Slice(s, 0, Len(p)) = p

\* Whitespace: what re's \s matches and str.strip() strips, among the
\* characters of the inputs (the BOM is not whitespace).
IsSpace(c) == InChars(c, " \t\n\r\f_^|")

Digits == "0123456789"
Upper == "ABCDEFGHIJKLMNOPQRSTUVWXYZ"
Lower == "abcdefghijklmnopqrstuvwxyz"

IsDigit(c) == InChars(c, Digits)

\* The index of c in S (c occurs in S).
IndexIn(c, S) == CHOOSE j \in 1..Len(S) : SubSeq(S, j, j) = c

\* str.lower(), a character at a time (the Cyrillic stand-ins are lower case).
RECURSIVE lower(_)
lower(s) ==
    IF s = "" THEN ""
    ELSE LET c == Head(s) IN
         (IF InChars(c, Upper) THEN SubSeq(Lower, IndexIn(c, Upper), IndexIn(c, Upper))
          ELSE c) \o lower(Tail(s))

\* str.strip()
RECURSIVE lstrip(_)
lstrip(s) == IF s # "" /\ IsSpace(Head(s)) THEN lstrip(Tail(s)) ELSE s

RECURSIVE rstrip(_)
rstrip(s) ==
    IF s # "" /\ IsSpace(SubSeq(s, Len(s), Len(s)))
    THEN rstrip(SubSeq(s, 1, Len(s) - 1))
    ELSE s

strip(s) == rstrip(lstrip(s))

\* re.sub(r"\s+", " ", s), after the three replace() calls and NFKC, which
\* turn the no-break, thin and narrow spaces into " " (they are whitespace
\* already, so the collapse subsumes them).
RECURSIVE CollapseSpace(_, _)
CollapseSpace(s, inRun) ==
    IF s = "" THEN ""
    ELSE IF IsSpace(Head(s))
         THEN (IF inRun THEN "" ELSE " ") \o CollapseSpace(Tail(s), TRUE)
         ELSE Head(s) \o CollapseSpace(Tail(s), FALSE)

\* u_norm on a str; the callers never pass None.
u_norm(s) == strip(CollapseSpace(s, FALSE))

\* int(<digits>)
RECURSIVE ToInt(_)
ToInt(s) ==
    IF s = "" THEN 0
    ELSE 10 * ToInt(SubSeq(s, 1, Len(s) - 1))
         + (IndexIn(SubSeq(s, Len(s), Len(s)), Digits) - 1)

\* str(n) for an int n >= 0
RECURSIVE IntToStr(_)
IntToStr(n) ==
    IF n < 10 THEN SubSeq(Digits, n + 1, n + 1)
    ELSE IntToStr(n \div 10) \o SubSeq(Digits, (n % 10) + 1, (n % 10) + 1)

-----------------------------------------------------------------------------
(* stream_next_object *)

SKIP == " \r\n\t,~_^|"

RECURSIVE SkipFrom(_, _)
SkipFrom(s, j) ==
    IF j < Len(s) /\ InChars(Ch(s, j), SKIP) THEN SkipFrom(s, j + 1) ELSE j

\* A slip: the loop body without the string mode, every brace counted.
ScanChar_NoStrings(st, ch, j) ==
    IF st.end # -1 THEN st
    ELSE IF ch = "{" THEN [st EXCEPT !.depth = @ + 1]
    ELSE IF ch = "}"
         THEN IF st.depth - 1 = 0
              THEN [st EXCEPT !.depth = @ - 1, !.end = j + 1]
              ELSE [st EXCEPT !.depth = @ - 1]
    ELSE st

\* The body of the second loop of stream_next_object at offset j, on the
\* locals (depth, in_str, esc); end is the offset the function returned
\* with, or -1 while it has not returned.
ScanChar(st, ch, j) ==
    IF st.end # -1 THEN st
    ELSE IF st.in_str
         THEN IF st.esc THEN [st EXCEPT !.esc = FALSE]
              ELSE IF ch = "\\" THEN [st EXCEPT !.esc = TRUE]
              ELSE IF ch = "\"" THEN [st EXCEPT !.in_str = FALSE]
              ELSE st
         ELSE IF ch = "\"" THEN [st EXCEPT !.in_str = TRUE]
              ELSE IF ch = "{" THEN [st EXCEPT !.depth = @ + 1]
              ELSE IF ch = "}"
                   THEN IF st.depth - 1 = 0
                        THEN [st EXCEPT !.depth = @ - 1, !.end = j + 1]
                        ELSE [st EXCEPT !.depth = @ - 1]
              ELSE st

\* The loop over the offsets lo..hi-1, from the locals st.  The range is
\* halved rather than walked, which keeps the evaluation shallow; the
\* characters are still met in order.
RECURSIVE ScanRange(_, _, _, _)
ScanRange(s, lo, hi, st) ==
    IF st.end # -1 \/ lo >= hi THEN st
    ELSE IF hi = lo + 1 THEN ScanChar(st, Ch(s, lo), lo)
    ELSE ScanRange(s, (lo + hi) \div 2, hi, ScanRange(s, lo, (lo + hi) \div 2, st))

\* stream_next_object(s, idx): [none, str, idx] for (obj_str, idx).
stream_next_object(s, j0) ==
    LET j == SkipFrom(s, j0)
        st == ScanRange(s, j, Len(s),
                        [depth |-> 0, in_str |-> FALSE, esc |-> FALSE, end |-> -1])
    IN  IF j >= Len(s) \/ Ch(s, j) # "{"
        THEN [none |-> TRUE, str |-> "", idx |-> j]
        ELSE IF st.end = -1 THEN [none |-> TRUE, str |-> "", idx |-> Len(s)]
        ELSE [none |-> FALSE, str |-> Slice(s, j, st.end), idx |-> st.end]

-----------------------------------------------------------------------------
(* The regular expressions *)

\* s[p], or "" at and past the end of s.
At(s, p) == IF p >= 0 /\ p < Len(s) THEN Ch(s, p) ELSE ""

\* \s* from p: the offset of the first character that is not whitespace.
RECURSIVE SkipSpace(_, _)
SkipSpace(s, p) == IF IsSpace(At(s, p)) THEN SkipSpace(s, p + 1) ELSE p

\* Whether the literal lit stands at offset p of s.
LitAt(s, p, lit) == p + Len(lit) <= Len(s) /\ Slice(s, p, p + Len(lit)) = lit

\* "<word>"\s*:\s* matched at p: the offset after it, or -1.
KeyAt(s, p, word) ==
    LET lit == "\"" \o word \o "\""
        q == SkipSpace(s, p + Len(lit))
    IN  IF LitAt(s, p, lit) /\ At(s, q) = ":" THEN SkipSpace(s, q + 1) ELSE -1

\* re.search: the least of the offsets at which the pattern matches, or -1
\* when there is none.
FirstMatch(hits) ==
    IF hits = {} THEN -1 ELSE CHOOSE p \in hits : \A q \in hits : p <= q

\* "messages"\s*:\s*\[ at p: m.end(), or -1
MessagesAt(s, p) ==
    LET q == KeyAt(s, p, "messages")
    IN  IF q # -1 /\ At(s, q) = "[" THEN q + 1 ELSE -1

\* find_messages_array_in(container): m.end(), or NoneInt
find_messages_array_in(container) ==
    LET p0 == FirstMatch({p \in 0..Len(container) : MessagesAt(container, p) # -1})
    IN  IF p0 = -1 THEN NoneInt ELSE MessagesAt(container, p0)

\* "chats"\s*:\s*\{\s*"list"\s*:\s*\[ at p: m.end(), or -1
ChatsListAt(s, p) ==
    LET q == KeyAt(s, p, "chats")
        r == IF q # -1 /\ At(s, q) = "{"
             THEN KeyAt(s, SkipSpace(s, q + 1), "list") ELSE -1
    IN  IF r # -1 /\ At(s, r) = "[" THEN r + 1 ELSE -1

\* find_chats_list_start(raw): m.end() (-1: the ValueError, which
\* list_all_chats never meets, as it asks has_chats_list first)
find_chats_list_start(txt) ==
    LET p0 == FirstMatch({p \in 0..Len(txt) : ChatsListAt(txt, p) # -1})
    IN  IF p0 = -1 THEN -1 ELSE ChatsListAt(txt, p0)

has_chats_list(txt) == find_chats_list_start(txt) # -1

\* The offset of the first character from p on that is not in the class
\* (a character of S when pos, a character not of S otherwise).
RECURSIVE SpanEnd(_, _, _, _)
SpanEnd(s, p, S, pos) ==
    IF p < Len(s) /\ (InChars(Ch(s, p), S) <=> pos)
    THEN SpanEnd(s, p + 1, S, pos) ELSE p

\* "name"\s*:\s*"([^"]*)" at p: the offset after the match, or -1
NameAt(s, p) ==
    LET q == KeyAt(s, p, "name")
        e == IF q # -1 /\ At(s, q) = "\"" THEN SpanEnd(s, q + 1, "\"", FALSE) ELSE -1
    IN  IF e # -1 /\ At(s, e) = "\"" THEN e + 1 ELSE -1

\* chat_name_from_obj_str: group 1 of the first match, or ""
chat_name_from_obj_str(chat_obj_str) ==
    LET hits == {p \in 0..Len(chat_obj_str) : NameAt(chat_obj_str, p) # -1}
        p0 == CHOOSE p \in hits : \A q \in hits : p <= q
        q0 == KeyAt(chat_obj_str, p0, "name")
    IN  IF hits = {} THEN ""
        ELSE Slice(chat_obj_str, q0 + 1, NameAt(chat_obj_str, p0) - 1)

\* "id"\s*:\s*([0-9]+) at p: the offset after the match, or -1
IdAt(s, p) ==
    LET q == KeyAt(s, p, "id")
    IN  IF q # -1 /\ IsDigit(At(s, q)) THEN SpanEnd(s, q, Digits, TRUE) ELSE -1

\* chat_id_from_obj_str: int(group 1) of the first match, or NoneInt
chat_id_from_obj_str(chat_obj_str) ==
    LET hits == {p \in 0..Len(chat_obj_str) : IdAt(chat_obj_str, p) # -1}
        p0 == CHOOSE p \in hits : \A q \in hits : p <= q
    IN  IF hits = {} THEN NoneInt
        ELSE ToInt(Slice(chat_obj_str, KeyAt(chat_obj_str, p0, "id"),
                         IdAt(chat_obj_str, p0)))

-----------------------------------------------------------------------------
(* Python values, and json.loads *)

(***************************************************************************)
(* A decoded value is a record with one field, named after its type:       *)
(* [null |-> TRUE] (None), [bool |-> b], [int |-> n], [str |-> s],          *)
(* [list |-> <<v, ...>>], [dict |-> f] with f a function from keys to       *)
(* values.  A message is such an f.                                         *)
(***************************************************************************)
PyNone == [null |-> TRUE]
IsNone(v) == "null" \in DOMAIN v
IsStr(v) == "str" \in DOMAIN v
IsInt(v) == "int" \in DOMAIN v
IsBool(v) == "bool" \in DOMAIN v
IsList(v) == "list" \in DOMAIN v
IsDict(v) == "dict" \in DOMAIN v
EmptyDict == [x \in {} |-> PyNone]

\* m.get(key)
get(m, key) == IF key \in DOMAIN m THEN m[key] ELSE PyNone

\* bool(v)
Truthy(v) ==
    CASE IsNone(v) -> FALSE
      [] IsBool(v) -> v.bool
      [] IsInt(v)  -> v.int # 0
      [] IsStr(v)  -> v.str # ""
      [] IsList(v) -> v.list # <<>>
      [] IsDict(v) -> DOMAIN v.dict # {}

\* str(n) for any int n
SignedToStr(n) == IF n < 0 THEN "-" \o IntToStr(-n) ELSE IntToStr(n)

\* str(v), for the values that have no nested repr (a list or a dict is
\* never passed: no input has one as a sender or an author id)
PyStr(v) ==
    CASE IsStr(v)  -> v.str
      [] IsInt(v)  -> SignedToStr(v.int)
      [] IsNone(v) -> "None"
      [] IsBool(v) -> IF v.bool THEN "True" ELSE "False"

\* int(v): [ok |-> FALSE] for the TypeError / ValueError, else the int.
\* A str is stripped and may carry a sign.
PyInt(v) ==
    CASE IsInt(v)  -> [ok |-> TRUE, int |-> v.int]
      [] IsBool(v) -> [ok |-> TRUE, int |-> IF v.bool THEN 1 ELSE 0]
      [] IsStr(v)  ->
            LET t == strip(v.str)
                signed == t # "" /\ InChars(Head(t), "+-")
                d == IF signed THEN Tail(t) ELSE t
            IN  IF d # "" /\ SpanEnd(d, 0, Digits, TRUE) = Len(d)
                THEN [ok |-> TRUE,
                      int |-> IF signed /\ Head(t) = "-" THEN 0 - ToInt(d) ELSE ToInt(d)]
                ELSE [ok |-> FALSE, int |-> 0]
      [] OTHER     -> [ok |-> FALSE, int |-> 0]

(***************************************************************************)
(* json.loads, for the JSON subset of the inputs: objects, arrays,         *)
(* strings with the two-character escapes, integers, true, false, null.    *)
(* Anything else (a fraction, an exponent, \uXXXX, NaN) is outside the     *)
(* subset and no input has it.  A parse gives [ok, val, pos]: whether it   *)
(* succeeded, the value and the offset after it.                           *)
(***************************************************************************)
JFail == [ok |-> FALSE, val |-> PyNone, pos |-> 0]

\* JSON whitespace from p
RECURSIVE SkipJ(_, _)
SkipJ(s, p) == IF At(s, p) # "" /\ InChars(At(s, p), " \t\n\r") THEN SkipJ(s, p + 1) ELSE p

\* The character an escape \e stands for ("": not an escape of the subset)
Unescape(e) ==
    CASE e = "\"" -> "\""
      [] e = "\\" -> "\\"
      [] e = "/"  -> "/"
      [] e = "n"  -> "\n"
      [] e = "t"  -> "\t"
      [] e = "r"  -> "\r"
      [] e = "f"  -> "\f"
      [] OTHER    -> ""

\* The rest of a string literal whose opening quote is before p.
RECURSIVE ParseStr(_, _, _)
ParseStr(s, p, acc) ==
    LET c == At(s, p) IN
    IF c = "" \/ InChars(c, "\n\t\r\f") THEN JFail
    ELSE IF c = "\"" THEN [ok |-> TRUE, val |-> [str |-> acc], pos |-> p + 1]
    ELSE IF c = "\\"
         THEN IF At(s, p + 1) = "" \/ Unescape(At(s, p + 1)) = "" THEN JFail
              ELSE ParseStr(s, p + 2, acc \o Unescape(At(s, p + 1)))
    ELSE ParseStr(s, p + 1, acc \o c)

\* -?(0|[1-9][0-9]*) at p, not followed by a fraction or an exponent
ParseInt(s, p) ==
    LET neg == At(s, p) = "-"
        d == IF neg THEN p + 1 ELSE p
        e == SpanEnd(s, d, Digits, TRUE)
    IN  IF e = d \/ (At(s, d) = "0" /\ e > d + 1) \/ InChars(At(s, e) \o "?", ".eE")
        THEN JFail
        ELSE [ok |-> TRUE,
              val |-> [int |-> IF neg THEN 0 - ToInt(Slice(s, d, e)) ELSE ToInt(Slice(s, d, e))],
              pos |-> e]

RECURSIVE ParseValue(_, _)
RECURSIVE ParseMembers(_, _, _)
RECURSIVE ParseElems(_, _, _)

\* The value that starts at p (whitespace skipped by the caller).
ParseValue(s, p) ==
    LET c == At(s, p) IN
    CASE c = "{" ->
            IF At(s, SkipJ(s, p + 1)) = "}"
            THEN [ok |-> TRUE, val |-> [dict |-> EmptyDict], pos |-> SkipJ(s, p + 1) + 1]
            ELSE ParseMembers(s, SkipJ(s, p + 1), EmptyDict)
      [] c = "[" ->
            IF At(s, SkipJ(s, p + 1)) = "]"
            THEN [ok |-> TRUE, val |-> [list |-> <<>>], pos |-> SkipJ(s, p + 1) + 1]
            ELSE ParseElems(s, SkipJ(s, p + 1), <<>>)
      [] c = "\"" -> ParseStr(s, p + 1, "")
      [] c # "" /\ InChars(c, "-0123456789") -> ParseInt(s, p)
      [] LitAt(s, p, "null") -> [ok |-> TRUE, val |-> PyNone, pos |-> p + 4]
      [] LitAt(s, p, "true") -> [ok |-> TRUE, val |-> [bool |-> TRUE], pos |-> p + 4]
      [] LitAt(s, p, "false") -> [ok |-> TRUE, val |-> [bool |-> FALSE], pos |-> p + 5]
      [] OTHER -> JFail

\* "key" : value (, "key" : value)* } from p; a repeated key keeps the
\* last value.
ParseMembers(s, p, acc) ==
    IF At(s, p) # "\"" THEN JFail
    ELSE LET key == ParseStr(s, p + 1, "")
             q == IF key.ok THEN SkipJ(s, key.pos) ELSE 0
             v == IF key.ok /\ At(s, q) = ":" THEN ParseValue(s, SkipJ(s, q + 1)) ELSE JFail
             r == IF v.ok THEN SkipJ(s, v.pos) ELSE 0
             acc2 == IF v.ok THEN (key.val.str :> v.val) @@ acc ELSE acc
         IN  IF ~v.ok THEN JFail
             ELSE IF At(s, r) = "," THEN ParseMembers(s, SkipJ(s, r + 1), acc2)
             ELSE IF At(s, r) = "}" THEN [ok |-> TRUE, val |-> [dict |-> acc2], pos |-> r + 1]
             ELSE JFail

\* value (, value)* ] from p
ParseElems(s, p, acc) ==
    LET v == ParseValue(s, p)
        r == IF v.ok THEN SkipJ(s, v.pos) ELSE 0
    IN  IF ~v.ok THEN JFail
        ELSE IF At(s, r) = "," THEN ParseElems(s, SkipJ(s, r + 1), Append(acc, v.val))
        ELSE IF At(s, r) = "]" THEN [ok |-> TRUE, val |-> [list |-> Append(acc, v.val)], pos |-> r + 1]
        ELSE JFail

\* json.loads(obj_str): [ok |-> FALSE, ...] for the exception
json_loads(obj_str) ==
    LET v == ParseValue(obj_str, SkipJ(obj_str, 0))
    IN  IF v.ok /\ SkipJ(obj_str, v.pos) = Len(obj_str) THEN v ELSE JFail

-----------------------------------------------------------------------------
(* The scan loops *)

\* The safety cap of list_all_chats (its default argument).
cap == 10000

\* A slip: the loop takes the offset stream_next_object returned.
AdvanceOnNone_Returned(at, ret) == ret

\* What the three scan loops do with their offset when stream_next_object
\* found nothing: i += 1 (the offset it returned is not used).
AdvanceOnNone(at, ret) == at + 1

\* A slip: the loop crawls on one character after a fragment, too.
AdvanceOnObject_Crawl(at, ret) == at + 1

\* What they do after a fragment: i = i2 if i2 > i else i + 1.
AdvanceOnObject(at, ret) == IF ret > at THEN ret ELSE at + 1

\* The locals a scan loop holds after a call of stream_next_object at `at`.
CallRecord(at, r) == [at |-> at, none |-> r.none, str |-> r.str, ret |-> r.idx]
NoCall == [at |-> 0, none |-> TRUE, str |-> "", ret |-> 0]

\* msgs after the try block: the decoded object appended, or msgs as it was
\* when json.loads raised.
AppendDecoded(list, obj_str) ==
    LET d == json_loads(obj_str)
    IN  IF d.ok THEN Append(list, d.val.dict) ELSE list

\* The (obj_str, id, name) a discovery loop appends for a fragment.
ChatTuple(obj_str, placeholder) ==
    [obj  |-> obj_str,
     id   |-> chat_id_from_obj_str(obj_str),
     name |-> IF chat_name_from_obj_str(obj_str) # ""
              THEN chat_name_from_obj_str(obj_str) ELSE placeholder]

\* The placeholder names (Cyrillic in the source, transliterated).
NoName == "(bez nazvaniya)"
SingleChat == "(single chat export)"

\* "if not start" / "if find_messages_array_in(...)": the truth of an
\* Optional[int].
TruthyInt(n) == n # NoneInt /\ n # 0

-----------------------------------------------------------------------------
(* stream_parse_messages_from_container *)

\* The state after the lines before the loop; `then` is where a container
\* without a message collection goes (return []).
ParseEnter(container, then) ==
    LET start == find_messages_array_in(container) IN
    /\ container_str' = container
    /\ msgs' = <<>>
    /\ idx' = 0
    /\ iter' = 0
    /\ last' = NoCall
    /\ IF ~TruthyInt(start)
       THEN after' = "" /\ pc' = then
       ELSE after' = Slice(container, start, Len(container)) /\ pc' = "parse_loop"

\* One iteration of the while loop.
ParseStep ==
    /\ pc = "parse_loop"
    /\ idx < Len(after)
    /\ LET r == stream_next_object(after, idx) IN
       /\ last' = CallRecord(idx, r)
       /\ IF r.none
          THEN /\ idx' = AdvanceOnNone(idx, r.idx)
               /\ msgs' = msgs
          ELSE /\ msgs' = AppendDecoded(msgs, r.str)
               /\ idx' = AdvanceOnObject(idx, r.idx)
    /\ iter' = iter + 1
    /\ UNCHANGED <<pc, op, raw, chat_query, chat_id, i, k, out, picked,
                   container_str, chat_name, user_id, user_query, exact, after, rows, err,
                   given>>

\* The loop ends: return msgs (to collect_rows_from_container, when it is
\* the caller).
ParseExit ==
    /\ pc = "parse_loop"
    /\ ~(idx < Len(after))
    /\ pc' = IF op = "collect_rows_from_container" THEN "parsed" ELSE "done"
    /\ UNCHANGED <<op, raw, chat_query, chat_id, i, k, out, picked,
                   container_str, chat_name, user_id, user_query, exact, after, idx, msgs,
                   last, rows, err, iter, given>>

-----------------------------------------------------------------------------
(* list_all_chats *)

ListEnter(txt) ==
    /\ raw' = txt
    /\ i' = IF has_chats_list(txt) THEN find_chats_list_start(txt) ELSE 0
    /\ k' = 0
    /\ out' = <<>>
    /\ iter' = 0
    /\ last' = NoCall
    /\ pc' = "list_loop"

\* One iteration of either discovery loop (the two are the same lines).
ListStep ==
    /\ pc = "list_loop"
    /\ i < Len(raw) /\ k < cap
    /\ LET r == stream_next_object(raw, i) IN
       /\ last' = CallRecord(i, r)
       /\ IF r.none
          THEN /\ i' = AdvanceOnNone(i, r.idx)
               /\ UNCHANGED <<out, k>>
          ELSE /\ IF TruthyInt(find_messages_array_in(r.str))
                  THEN /\ out' = Append(out, ChatTuple(r.str, NoName))
                       /\ k' = k + 1
                  ELSE UNCHANGED <<out, k>>
               /\ i' = AdvanceOnObject(i, r.idx)
    /\ iter' = iter + 1
    /\ UNCHANGED <<pc, op, raw, chat_query, chat_id, picked, container_str,
                   chat_name, user_id, user_query, exact, after, idx, msgs, rows, err,
                   given>>

\* What list_all_chats returns once its loop has ended with `found`.
ListResult(txt, found) ==
    IF has_chats_list(txt) \/ found # <<>> THEN found
    ELSE <<ChatTuple(txt, SingleChat)>>

\* The loop ends: return out, or the whole input as one conversation.
ListExit ==
    /\ pc = "list_loop"
    /\ ~(i < Len(raw) /\ k < cap)
    /\ out' = ListResult(raw, out)
    /\ pc' = IF op = "pick_chat_container" THEN "listed" ELSE "done"
    /\ UNCHANGED <<op, raw, chat_query, chat_id, i, k, picked, container_str,
                   chat_name, user_id, user_query, exact, after, idx, msgs, last, rows,
                   err, iter, given>>

-----------------------------------------------------------------------------
(* pick_chat_container *)

\* The literals of is_saved_chat, in the stand-ins of the heading.
SavedEn == "saved messages"
SavedRu == "!#$%&''()"
SavedNick == "*&'+"

is_saved_chat(name) ==
    LET n == lower(u_norm(name))
    IN  Contains(n, SavedEn) \/ Contains(n, SavedRu) \/ n = SavedNick

\* The first of the indexes hits (0: none): where a
\* "for ... in chats: if ...: return" loop returns.
FirstWhere(hits) ==
    IF hits = {} THEN 0 ELSE CHOOSE n \in hits : \A m \in hits : n <= m

\* The three tiers of the name query, in the order the code tries them.
ExactTier(chats, q) ==
    FirstWhere({n \in 1..Len(chats) : lower(u_norm(chats[n].name)) = q})

ContainsTier(chats, q) ==
    FirstWhere({n \in 1..Len(chats) : Contains(lower(u_norm(chats[n].name)), q)})

PrefixTier(chats, q) ==
    FirstWhere({n \in 1..Len(chats) : StartsWith(lower(u_norm(chats[n].name)), q)})

\* A slip: the substring tier is tried before the exact one.
ByName_ContainsFirst(chats, query) ==
    LET q == lower(u_norm(query)) IN
    IF ContainsTier(chats, q) # 0 THEN ContainsTier(chats, q)
    ELSE IF ExactTier(chats, q) # 0 THEN ExactTier(chats, q)
    ELSE PrefixTier(chats, q)

\* The conversation a name query selects (0: the ValueError).
ByName(chats, query) ==
    LET q == lower(u_norm(query)) IN
    IF ExactTier(chats, q) # 0 THEN ExactTier(chats, q)
    ELSE IF ContainsTier(chats, q) # 0 THEN ContainsTier(chats, q)
    ELSE PrefixTier(chats, q)

\* The conversation an id selects (0: the ValueError).
ById(chats, cid) ==
    FirstWhere({n \in 1..Len(chats) : chats[n].id = cid})

\* A slip: the default is the first conversation, whatever its name.
ByDefault_First(chats) == 1

\* The default: the first conversation that is not the self-notes one, or
\* else the first.
ByDefault(chats) ==
    LET n0 == FirstWhere({n \in 1..Len(chats) : ~is_saved_chat(chats[n].name)})
    IN  IF n0 # 0 THEN n0 ELSE 1

\* pick_chat_container after list_all_chats returned chats:
\* [err, n] with n the index of the conversation returned.
PickFrom(chats, query, cid) ==
    IF chats = <<>> THEN [err |-> "NoChats", n |-> 0]
    ELSE IF cid # NoneInt
         THEN IF ById(chats, cid) # 0 THEN [err |-> "none", n |-> ById(chats, cid)]
              ELSE [err |-> "NotFoundById", n |-> 0]
    ELSE IF query # NoneStr /\ query # ""
         THEN IF ByName(chats, query) # 0 THEN [err |-> "none", n |-> ByName(chats, query)]
              ELSE [err |-> "NotFoundByName", n |-> 0]
    ELSE [err |-> "none", n |-> ByDefault(chats)]

NoPick == [obj |-> "", name |-> ""]

\* The lines of pick_chat_container after chats = list_all_chats(raw).
PickSelect ==
    /\ pc = "listed"
    /\ op = "pick_chat_container"
    /\ LET r == PickFrom(out, chat_query, chat_id) IN
       /\ err' = r.err
       /\ picked' = IF r.err = "none"
                    THEN [obj |-> out[r.n].obj, name |-> out[r.n].name]
                    ELSE NoPick
    /\ pc' = "done"
    /\ UNCHANGED <<op, raw, chat_query, chat_id, i, k, out, container_str,
                   chat_name, user_id, user_query, exact, after, idx, msgs, last, rows,
                   iter, given>>

-----------------------------------------------------------------------------
(* collect_rows_from_container *)

\* The first truthy of from, actor, from_id, or ""; normalized.
norm_sender(m) ==
    LET s == IF Truthy(get(m, "from")) THEN get(m, "from")
             ELSE IF Truthy(get(m, "actor")) THEN get(m, "actor")
             ELSE IF Truthy(get(m, "from_id")) THEN get(m, "from_id")
             ELSE [str |-> ""]
    IN  u_norm(PyStr(s))

norm_from_id(m) ==
    IF IsNone(get(m, "from_id")) THEN "" ELSE PyStr(get(m, "from_id"))

want_user_id_string(uid) == "user" \o SignedToStr(uid)

\* What extract_text appends for the element x of a list (<<>>: nothing).
TextPart(x) ==
    IF IsStr(x) THEN <<x>>
    ELSE IF IsDict(x)
         THEN <<IF "text" \in DOMAIN x.dict THEN x.dict["text"] ELSE [str |-> ""]>>
    ELSE <<>>

RECURSIVE TextParts(_)
TextParts(list) ==
    IF list = <<>> THEN <<>> ELSE TextPart(Head(list)) \o TextParts(Tail(list))

\* "".join(parts): [ok |-> FALSE] is the TypeError for a part that is no str.
RECURSIVE Join(_)
Join(parts) ==
    IF parts = <<>> THEN [ok |-> TRUE, str |-> ""]
    ELSE IF ~IsStr(Head(parts)) \/ ~Join(Tail(parts)).ok THEN [ok |-> FALSE, str |-> ""]
    ELSE [ok |-> TRUE, str |-> Head(parts).str \o Join(Tail(parts)).str]

\* extract_text(msg): [ok, str]
extract_text(msg) ==
    LET t == IF "text" \in DOMAIN msg THEN msg["text"] ELSE [str |-> ""]
    IN  IF IsStr(t) THEN [ok |-> TRUE, str |-> t.str]
        ELSE IF IsList(t) THEN Join(TextParts(t.list))
        ELSE [ok |-> TRUE, str |-> ""]

\* Whether build_id_index enters m, and under which key.
IndexKey(m) ==
    IF get(m, "type") # [str |-> "message"] \/ IsNone(get(m, "id"))
    THEN [ok |-> FALSE, int |-> 0]
    ELSE PyInt(get(m, "id"))

\* build_id_index(messages): a function from ids to messages; a later
\* message replaces an earlier one of the same id.
RECURSIVE IndexInto(_, _)
IndexInto(index, messages) ==
    IF messages = <<>> THEN index
    ELSE LET m == Head(messages) IN
         IndexInto(IF IndexKey(m).ok THEN (IndexKey(m).int :> m) @@ index ELSE index,
                   Tail(messages))

build_id_index(messages) == IndexInto([x \in {} |-> EmptyDict], messages)

\* A slip: with an author id given, the name filter still lets messages in.
PassesAuthor_NameToo(msg, uid, uquery, ex) ==
    LET sender == norm_sender(msg)
        uq == IF uquery # NoneStr /\ uquery # "" THEN lower(uquery) ELSE ""
        byName == IF ex THEN sender = (IF uquery = NoneStr THEN "" ELSE uquery)
                  ELSE Contains(lower(sender), uq)
    IN  IF uid # NoneInt
        THEN norm_from_id(msg) = want_user_id_string(uid) \/ (uquery # NoneStr /\ byName)
        ELSE byName

\* The author filter: whether msg is kept.
PassesAuthor(msg, uid, uquery, ex) ==
    IF uid # NoneInt
    THEN norm_from_id(msg) = want_user_id_string(uid)
    ELSE LET sender == norm_sender(msg)
             uq == IF uquery # NoneStr /\ uquery # "" THEN lower(uquery) ELSE ""
         IN  IF ex THEN sender = (IF uquery = NoneStr THEN "" ELSE uquery)
             ELSE Contains(lower(sender), uq)

\* rmsg: the indexed message a reply id names, or None (EmptyDict here: an
\* indexed message has a type, so it is never the empty dict, and
\* "if rmsg" is false of both).
ReplyTarget(reply_id, id_index) ==
    IF PyInt(reply_id).ok /\ PyInt(reply_id).int \in DOMAIN id_index
    THEN id_index[PyInt(reply_id).int] ELSE EmptyDict

\* A slip: the reply target is never looked up.
ReplyContext_Blank(reply_id, id_index) ==
    [ok |-> TRUE, r_from |-> "", r_date |-> [str |-> ""], r_text |-> ""]

\* The reply fields of a row: [ok, r_from, r_date, r_text]
ReplyContext(reply_id, id_index) ==
    LET rmsg == ReplyTarget(reply_id, id_index) IN
    IF IsNone(reply_id) \/ rmsg = EmptyDict
    THEN [ok |-> TRUE, r_from |-> "", r_date |-> [str |-> ""], r_text |-> ""]
    ELSE [ok     |-> extract_text(rmsg).ok,
          r_from |-> norm_sender(rmsg),
          r_date |-> IF Truthy(get(rmsg, "date")) THEN get(rmsg, "date") ELSE [str |-> ""],
          r_text |-> strip(extract_text(rmsg).str)]

\* A slip: a message without text is emitted like any other.
SkipsText_Never(text) == FALSE

\* "if not text: continue"
SkipsText(text) == text = ""

\* One pass of the for loop: "skip" (continue), "raise" or "row".
RowOf(msg, id_index, chat, uid, uquery, ex) ==
    IF get(msg, "type") # [str |-> "message"] THEN [kind |-> "skip"]
    ELSE IF ~PassesAuthor(msg, uid, uquery, ex) THEN [kind |-> "skip"]
    ELSE IF ~extract_text(msg).ok THEN [kind |-> "raise"]
    ELSE IF SkipsText(strip(extract_text(msg).str)) THEN [kind |-> "skip"]
    ELSE LET rc == ReplyContext(get(msg, "reply_to_message_id"), id_index) IN
         IF ~rc.ok THEN [kind |-> "raise"]
         ELSE [kind |-> "row",
               row  |-> [chat        |-> chat,
                         id          |-> get(msg, "id"),
                         date        |-> get(msg, "date"),
                         from        |-> norm_sender(msg),
                         from_id     |-> norm_from_id(msg),
                         text        |-> strip(extract_text(msg).str),
                         reply_to_id |-> get(msg, "reply_to_message_id"),
                         reply_from  |-> rc.r_from,
                         reply_date  |-> rc.r_date,
                         reply_text  |-> rc.r_text]]

\* The for loop over messages: [err, rows]
RECURSIVE RowsFrom(_, _, _, _, _, _, _)
RowsFrom(messages, acc, id_index, chat, uid, uquery, ex) ==
    IF messages = <<>> THEN [err |-> "none", rows |-> acc]
    ELSE LET r == RowOf(Head(messages), id_index, chat, uid, uquery, ex) IN
         IF r.kind = "raise" THEN [err |-> "TypeError", rows |-> <<>>]
         ELSE RowsFrom(Tail(messages),
                       IF r.kind = "row" THEN Append(acc, r.row) ELSE acc,
                       id_index, chat, uid, uquery, ex)

\* The lines of collect_rows_from_container after messages = stream_parse_...
CollectRows ==
    /\ pc = "parsed"
    /\ op = "collect_rows_from_container"
    /\ LET r == RowsFrom(msgs, <<>>, build_id_index(msgs), chat_name,
                         user_id, user_query, exact) IN
       /\ rows' = r.rows
       /\ err' = r.err
    /\ pc' = "done"
    /\ UNCHANGED <<op, raw, chat_query, chat_id, i, k, out, picked,
                   container_str, chat_name, user_id, user_query, exact, after, idx, msgs,
                   last, iter, given>>

-----------------------------------------------------------------------------
(* The inputs *)

\* The longest text over ScanAlphabet the scan loops are run on exhaustively.
MaxLen == 3

\* The longest run of garbage between two message objects or conversations.
MaxGarbage == 1

\* The most conversations of an input of pick_chat_container.
MaxChats == 2

\* The most messages of a conversation given to collect_rows_from_container.
MaxMsgs == 2

\* One character of each kind the scanner tells apart: the braces, the
\* quote, the backslash, a skipped separator and an ordinary character.
ScanAlphabet == {"{", "}", "\"", "\\", ",", "x"}

\* The texts over A of length at most n.
RECURSIVE Texts(_, _)
Texts(A, n) ==
    IF n = 0 THEN {""}
    ELSE LET T == Texts(A, n - 1) IN T \cup {t \o c : t \in T, c \in A}

\* The sequences over S of length at most n.
RECURSIVE Seqs(_, _)
Seqs(S, n) ==
    IF n = 0 THEN {<<>>}
    ELSE LET T == Seqs(S, n - 1) IN T \cup {Append(t, x) : t \in T, x \in S}

\* The texts of seq joined by sep.
RECURSIVE JoinTexts(_, _)
JoinTexts(seq, sep) ==
    IF seq = <<>> THEN ""
    ELSE IF Len(seq) = 1 THEN seq[1]
    ELSE seq[1] \o sep \o JoinTexts(Tail(seq), sep)

MsgMarker == "\"messages\":["
ChatsMarker == "{\"chats\":{\"list\":["

\* Well-formed message objects, with what they decode to.
GoodMessages ==
    { [txt |-> "{\"id\":1,\"type\":\"message\",\"text\":\"hi\"}",
       val |-> [id |-> [int |-> 1], type |-> [str |-> "message"], text |-> [str |-> "hi"]]],
      [txt |-> "{\"text\":\"a{b}c\"}",
       val |-> [text |-> [str |-> "a{b}c"]]],
      [txt |-> "{\"id\":2,\"text\":[\"}\\\"\",{\"text\":\"{\"}]}",
       val |-> [id |-> [int |-> 2],
                text |-> [list |-> <<[str |-> "}\""], [dict |-> [text |-> [str |-> "{"]]]>>]]] }

\* The pairs of message objects a garbled container holds.
GoodPairs == {m \in GoodMessages \X GoodMessages : m[1] # m[2]}

\* Garbage: runs over the characters the scanner tells apart.
Garbage == Texts({"{", "}", "\"", "x"}, MaxGarbage)

\* Garbage between conversations: an opening brace and an ordinary character.
Junk == Texts({"{", "x"}, MaxGarbage)

NoParts == [g |-> <<>>, m |-> <<>>]

\* g0 m1 g1 m2 g2
Garbled(g, m) == g[1] \o m[1].txt \o g[2] \o m[2].txt \o g[3]

\* Conversations for the discovery loops.
DemoChats ==
    { "{\"name\":\"A\",\"messages\":[{}]}",
      "{\"id\":2,\"messages\" : []}",
      "{\"x\":\"}\"}" }

\* Conversation names, each with its normalized lower-case form and
\* whether it is a self-notes name, both worked out by hand.
PickChats ==
    { [name |-> "Saved Messages",     norm |-> "saved messages",    saved |-> TRUE],
      [name |-> "My_SAVED  messages", norm |-> "my saved messages", saved |-> TRUE],
      [name |-> "!#$%&''()",          norm |-> "!#$%&''()",         saved |-> TRUE],
      [name |-> "*&'+",               norm |-> "*&'+",              saved |-> TRUE],
      [name |-> "*&'+ x",             norm |-> "*&'+ x",            saved |-> FALSE],
      [name |-> "Alice",              norm |-> "alice",             saved |-> FALSE],
      [name |-> " Al",                norm |-> "al",                saved |-> FALSE],
      [name |-> "",                   norm |-> "(bez nazvaniya)",   saved |-> FALSE] }

\* Name queries, each with its normalized lower-case form.
PickQueries ==
    { [q |-> "al",     norm |-> "al"],
      [q |-> "ALICE ", norm |-> "alice"],
      [q |-> "saved^Messages", norm |-> "saved messages"],
      [q |-> "zz",     norm |-> "zz"],
      [q |-> " ",      norm |-> ""] }

\* The text of a conversation of the given name and id, without messages.
ChatText(name, cid) ==
    "{\"name\":\"" \o name \o "\",\"id\":" \o IntToStr(cid) \o "," \o MsgMarker \o "]}"

\* The texts of the conversations seq, numbered from n.
RECURSIVE ChatTexts(_, _)
ChatTexts(seq, n) ==
    IF seq = <<>> THEN <<>>
    ELSE <<ChatText(seq[1].name, n)>> \o ChatTexts(Tail(seq), n + 1)

\* The export that holds the conversations seq, in a conversation list
\* (wrapped) or one after the other.
ExportText(seq, wrapped) ==
    IF wrapped THEN ChatsMarker \o JoinTexts(ChatTexts(seq, 1), ",") \o "]}}"
    ELSE JoinTexts(ChatTexts(seq, 1), "\n")

\* The message fragments a conversation is built from. With each: whether
\* it decodes (ok), whether its type is "message" (isMsg), the integer its
\* id stands for (key, NoneInt without one), its from_id as a string (fid),
\* its normalized sender, the reply_date a reply to it gets (rdate), its
\* flattened and trimmed text (flat), its reply_to_message_id (reply) and
\* the integer that stands for (target, NoneInt without one); all worked
\* out by hand.
PoolMessages ==
    { [txt |-> "{\"id\":1,\"type\":\"message\",\"from\":\"Alice\",\"from_id\":\"user1\",\"date\":\"d1\",\"text\":\"original\"}",
       ok |-> TRUE, isMsg |-> TRUE, key |-> 1, fid |-> "user1", sender |-> "Alice",
       rdate |-> [str |-> "d1"], flat |-> "original", reply |-> PyNone, target |-> NoneInt],
      [txt |-> "{\"id\":2,\"type\":\"message\",\"from\":\"Bob\",\"from_id\":\"user2\",\"text\":\" re \",\"reply_to_message_id\":1}",
       ok |-> TRUE, isMsg |-> TRUE, key |-> 2, fid |-> "user2", sender |-> "Bob",
       rdate |-> [str |-> ""], flat |-> "re", reply |-> [int |-> 1], target |-> 1],
      [txt |-> "{\"id\":\"3\",\"type\":\"message\",\"from\":\"_Al \",\"from_id\":\"user1\",\"text\":[\"a\",{\"type\":\"link\",\"text\":\"b\"},{\"x\":1}],\"reply_to_message_id\":4}",
       ok |-> TRUE, isMsg |-> TRUE, key |-> 3, fid |-> "user1", sender |-> "Al",
       rdate |-> [str |-> ""], flat |-> "ab", reply |-> [int |-> 4], target |-> 4],
      [txt |-> "{\"id\":4,\"type\":\"service\",\"actor\":\"Alice\",\"from_id\":\"user1\",\"text\":\"joined\"}",
       ok |-> TRUE, isMsg |-> FALSE, key |-> 4, fid |-> "user1", sender |-> "Alice",
       rdate |-> [str |-> ""], flat |-> "joined", reply |-> PyNone, target |-> NoneInt],
      [txt |-> "{\"id\":5,\"type\":\"message\",\"from\":\"Alice\",\"from_id\":\"user1\",\"text\":\" \\n\",\"reply_to_message_id\":1}",
       ok |-> TRUE, isMsg |-> TRUE, key |-> 5, fid |-> "user1", sender |-> "Alice",
       rdate |-> [str |-> ""], flat |-> "", reply |-> [int |-> 1], target |-> 1],
      [txt |-> "{\"id\":6,\"type\":\"message\",\"from\":\"alice\",\"from_id\":1,\"text\":\"int\",\"reply_to_message_id\":\"x\"}",
       ok |-> TRUE, isMsg |-> TRUE, key |-> 6, fid |-> "1", sender |-> "alice",
       rdate |-> [str |-> ""], flat |-> "int", reply |-> [str |-> "x"], target |-> NoneInt],
      [txt |-> "{\"type\":\"message\",\"from_id\":\"user1\",\"date\":\"d7\",\"text\":\"anon\",\"reply_to_message_id\":\"3\"}",
       ok |-> TRUE, isMsg |-> TRUE, key |-> NoneInt, fid |-> "user1", sender |-> "user1",
       rdate |-> [str |-> "d7"], flat |-> "anon", reply |-> [str |-> "3"], target |-> 3],
      [txt |-> "{\"id\":8,\"type\":\"message\",\"from\":\"Malice\",\"from_id\":\"user11\",\"text\":\"m\",\"reply_to_message_id\":3}",
       ok |-> TRUE, isMsg |-> TRUE, key |-> 8, fid |-> "user11", sender |-> "Malice",
       rdate |-> [str |-> ""], flat |-> "m", reply |-> [int |-> 3], target |-> 3],
      [txt |-> "{\"id\":9,\"type\":\"message\",\"from_id\":\"user1\",\"text\":}",
       ok |-> FALSE, isMsg |-> TRUE, key |-> 9, fid |-> "user1", sender |-> "user1",
       rdate |-> [str |-> ""], flat |-> "", reply |-> PyNone, target |-> NoneInt] }

\* A message whose text is a list with an object whose text is a number.
NumberInText ==
    [txt |-> "{\"id\":7,\"type\":\"message\",\"from\":\"Alice\",\"from_id\":\"user1\",\"text\":[{\"text\":1}]}",
     ok |-> TRUE, isMsg |-> TRUE, key |-> 7, fid |-> "user1", sender |-> "Alice",
     rdate |-> [str |-> ""], flat |-> "", reply |-> PyNone, target |-> NoneInt]

\* The texts of the message fragments seq.
RECURSIVE MessageTexts(_)
MessageTexts(seq) ==
    IF seq = <<>> THEN <<>> ELSE <<Head(seq).txt>> \o MessageTexts(Tail(seq))

\* The conversation "Chat" that holds the message fragments seq.
ContainerText(seq) ==
    "{\"name\":\"Chat\"," \o MsgMarker \o JoinTexts(MessageTexts(seq), ",") \o "]}"

\* The author filters collect_rows_from_container is called with.
AuthorFilters ==
    {[uid |-> 1, uq |-> y, ex |-> b] : y \in {NoneStr, "al", "Alice"}, b \in BOOLEAN}
    \cup { [uid |-> 11,      uq |-> NoneStr, ex |-> FALSE],
           [uid |-> NoneInt, uq |-> "AL",    ex |-> FALSE],
           [uid |-> NoneInt, uq |-> "Al",    ex |-> TRUE],
           [uid |-> NoneInt, uq |-> NoneStr, ex |-> FALSE] }

-----------------------------------------------------------------------------
(* The calls *)

Init ==
    /\ pc = "idle"
    /\ op = "none"
    /\ raw = ""
    /\ chat_query = NoneStr
    /\ chat_id = NoneInt
    /\ i = 0
    /\ k = 0
    /\ out = <<>>
    /\ picked = NoPick
    /\ container_str = ""
    /\ chat_name = ""
    /\ user_id = NoneInt
    /\ user_query = NoneStr
    /\ exact = FALSE
    /\ after = ""
    /\ idx = 0
    /\ msgs = <<>>
    /\ last = NoCall
    /\ rows = <<>>
    /\ err = "none"
    /\ iter = 0
    /\ given = NoParts

\* The containers stream_parse_messages_from_container is called with:
\* every short text after the marker, texts without a marker, and two
\* message objects in garbage (the same garbage before the first and after
\* the second).
ParseInputs ==
    {[txt |-> MsgMarker \o b, parts |-> NoParts] : b \in Texts(ScanAlphabet, MaxLen)}
    \cup
    {[txt |-> b, parts |-> NoParts] : b \in {"", "{}", "\"messages\":{}"}}
    \cup
    {[txt |-> MsgMarker \o Garbled(g, m), parts |-> [g |-> g, m |-> m]] :
        g \in {<<a, b, a>> : a \in Garbage, b \in Garbage}, m \in GoodPairs}

\* stream_parse_messages_from_container(container_str)
CallParse ==
    /\ pc = "idle"
    /\ \E c \in ParseInputs :
          /\ ParseEnter(c.txt, "done")
          /\ given' = c.parts
    /\ op' = "stream_parse_messages_from_container"
    /\ UNCHANGED <<raw, chat_query, chat_id, i, k, out, picked, chat_name,
                   user_id, user_query, exact, rows, err>>

\* The texts list_all_chats is called with: every short text, bare and
\* after the conversation-list marker, and two conversations in garbage.
ListInputs ==
    {w \o b : w \in {"", ChatsMarker}, b \in Texts(ScanAlphabet, MaxLen)}
    \cup
    {w \o g[1] \o c[1] \o g[2] \o c[2] \o g[3] :
        w \in {"", ChatsMarker}, g \in {<<a, b, a>> : a \in Junk, b \in Junk},
        c \in DemoChats \X DemoChats}

\* list_all_chats(raw)
CallList ==
    /\ pc = "idle"
    /\ \E txt \in ListInputs : ListEnter(txt)
    /\ op' = "list_all_chats"
    /\ UNCHANGED <<chat_query, chat_id, picked, container_str, chat_name, user_id,
                   user_query, exact, after, idx, msgs, rows, err, given>>

NextScan == CallParse \/ ParseStep \/ ParseExit \/ CallList \/ ListStep \/ ListExit

\* The scanner and the three scan loops.
SpecScan == Init /\ [][NextScan]_vars

-----------------------------------------------------------------------------
(* The scanner's contract, stated without the scanner *)

\* The text and the offset of the scan loop that is running or has run.
InParse == op \in {"stream_parse_messages_from_container", "collect_rows_from_container"}
LoopText == IF InParse THEN after ELSE raw
LoopOffset == IF InParse THEN idx ELSE i
InLoop == pc \in {"parse_loop", "list_loop"}

\* The number of backslashes that stand immediately before offset p.
RECURSIVE BackslashRun(_, _)
BackslashRun(s, p) ==
    IF p > 0 /\ Ch(s, p - 1) = "\\" THEN 1 + BackslashRun(s, p - 1) ELSE 0

\* The least element of a set of offsets (-1: the set is empty).
Least(S) == IF S = {} THEN -1 ELSE CHOOSE p \in S : \A q \in S : p <= q

\* The string literals of s read from offset p on, as <<open, close>>
\* pairs of the offsets of their quotes: a literal opens at the first quote
\* and closes at the next quote that an even number of backslashes
\* precedes (Len(s): it never closes).
RECURSIVE Literals(_, _)
Literals(s, p) ==
    LET open == Least({q \in p..(Len(s) - 1) : Ch(s, q) = "\""})
        shut == Least({q \in (open + 1)..(Len(s) - 1) :
                         Ch(s, q) = "\"" /\ BackslashRun(s, q) % 2 = 0})
    IN  IF open = -1 THEN {}
        ELSE IF shut = -1 THEN {<<open, Len(s)>>}
        ELSE {<<open, shut>>} \cup Literals(s, shut + 1)

\* The offsets from start on that hold the brace b outside every literal.
BracesOutside(s, start, b) ==
    LET lits == Literals(s, start)
    IN  {p \in start..(Len(s) - 1) :
            Ch(s, p) = b /\ \A l \in lits : ~(l[1] < p /\ p <= l[2])}

\* The offset just past the first "}" outside a literal at which the depth
\* of the braces outside literals, counted from start, is back at zero
\* (-1: there is none).
BalancedEnd(s, start) ==
    LET opens == BracesOutside(s, start, "{")
        shuts == BracesOutside(s, start, "}")
        zero == {q \in shuts :
                   Cardinality({p \in opens : p < q}) = Cardinality({p \in shuts : p <= q})}
    IN  IF zero = {} THEN -1 ELSE Least(zero) + 1

\* The first offset at or after p that holds no character of the skip set.
FirstUnskipped(s, p) ==
    Least({q \in p..Len(s) : q = Len(s) \/ ~InChars(Ch(s, q), SKIP)})

\* A call of stream_next_object(s, p) that returned r agrees with the
\* contract: a fragment is the balanced span that opens at the first
\* unskipped offset, and the offset returned is its end.
AgreesWithContract(s, p, r) ==
    r.none \/ LET start == FirstUnskipped(s, p)
                  end == BalancedEnd(s, start)
              IN  /\ At(s, start) = "{"
                  /\ end # -1
                  /\ r.str = Slice(s, start, end)
                  /\ r.idx = end

\* The call a scan loop made last landed on a "{" that never closes.
LastWasTruncated ==
    /\ InLoop /\ iter > 0
    /\ At(LoopText, FirstUnskipped(LoopText, last.at)) = "{"
    /\ BalancedEnd(LoopText, FirstUnskipped(LoopText, last.at)) = -1

-----------------------------------------------------------------------------
(* C1 *)

\* C1: the scan loops make at most len(text) iterations: every iteration
\* leaves the offset at least one past where it was, and a fragment is
\* returned with an offset greater than the one the scanner was called with,
\* whatever the text and the start offset.
C1_ScanLoopsTerminate ==
    /\ iter <= Len(LoopText)
    /\ (InLoop /\ iter > 0) =>
          /\ LoopOffset >= last.at + 1
          /\ ~last.none => last.ret > last.at
    /\ (InLoop /\ iter = 0 /\ given = NoParts) =>
          \A p \in 0..Len(LoopText) :
             LET r == stream_next_object(LoopText, p)
             IN  /\ r.idx >= p
                 /\ ~r.none => r.idx > p

\* A discovery loop has made several iterations, the last of which returned
\* a fragment of more than one character, and the text is not yet exhausted.
C1_Witness ==
    /\ pc = "list_loop" /\ iter >= 2 /\ ~last.none
    /\ last.ret > last.at + 1 /\ i < Len(raw)

(* C2 *)

\* C2: a fragment stream_next_object returns is the span from the first
\* unskipped offset, which holds "{", to the first "}" outside a string
\* literal at which the depth of the braces outside literals is zero again;
\* the offset returned is the end of that span.
C2_FragmentIsBalancedSpan ==
    /\ (InLoop /\ iter > 0) =>
          AgreesWithContract(LoopText, last.at,
                             [none |-> last.none, str |-> last.str, idx |-> last.ret])
    /\ (InLoop /\ iter = 0 /\ given = NoParts) =>
          \A p \in 0..Len(LoopText) :
             AgreesWithContract(LoopText, p, stream_next_object(LoopText, p))

\* The object of the example, with its braces inside a string value, was
\* returned whole.
C2_Witness ==
    /\ pc = "parse_loop" /\ ~last.none
    /\ last.str = "{\"text\":\"a{b}c\"}"

(* C3 *)

\* The offsets of `after` that the garbage runs g0, g1, g2 of the input
\* cover.
GarbageOffsets ==
    LET a == Len(given.g[1])
        b == a + Len(given.m[1].txt)
        c == b + Len(given.g[2])
        d == c + Len(given.m[2].txt)
    IN  (0..(a - 1)) \cup (b..(c - 1)) \cup (d..(Len(after) - 1))

\* No garbage character is part of an object: no "{" of the garbage opens
\* a balanced span.
GarbageIsNoObject ==
    \A p \in GarbageOffsets : At(after, p) = "{" => BalancedEnd(after, p) = -1

\* C3: message objects separated by garbage that is part of no object are
\* all recovered, once each and in document order.
C3_GarbageLosesNoMessage ==
    (pc = "done" /\ given # NoParts /\ GarbageIsNoObject)
        => msgs = <<given.m[1].val, given.m[2].val>>

\* Both messages were recovered from a container whose garbage holds an
\* opening brace before the second and a quote after it.
C3_Witness ==
    /\ pc = "done" /\ given # NoParts /\ GarbageIsNoObject
    /\ given.g[2] = "{" /\ given.g[3] = "\""
    /\ Len(msgs) = 2

(* C10 *)

\* C10 as claimed: after a call that met a "{" that never closes, the scan
\* loop is over (the text counts as exhausted).
C10_TruncatedEndsTheLoop ==
    LastWasTruncated => LoopOffset >= Len(LoopText)

\* C10 as amended: such a call returns no fragment and the end of the text,
\* and the loop goes on one character after the offset it made the call
\* with.
C10_TruncatedIsCrawledPast ==
    LastWasTruncated =>
        /\ last.none
        /\ last.ret = Len(LoopText)
        /\ LoopOffset = last.at + 1

\* An object nested in a truncated one was emitted as a message.
C10_Witness ==
    /\ pc = "done" /\ InParse
    /\ At(after, 0) = "{" /\ BalancedEnd(after, 0) = -1
    /\ Len(msgs) > 0

-----------------------------------------------------------------------------
(* pick_chat_container: the call, and C7 and C9 *)

\* pick_chat_container(raw, chat_query, chat_id), with an id, a name query
\* or neither.
CallPick ==
    /\ pc = "idle"
    /\ \E seq \in Seqs(PickChats, MaxChats), w \in BOOLEAN :
          /\ ListEnter(ExportText(seq, w))
          /\ given' = [g |-> <<>>, m |-> seq]
    /\ \E sel \in ({[q |-> NoneStr, id |-> NoneInt], [q |-> "", id |-> NoneInt]}
                   \cup {[q |-> x.q, id |-> NoneInt] : x \in PickQueries}
                   \cup {[q |-> NoneStr, id |-> n] : n \in {2, MaxChats + 2}}
                   \cup {[q |-> "al", id |-> 2]}) :
          /\ chat_query' = sel.q
          /\ chat_id' = sel.id
    /\ op' = "pick_chat_container"
    /\ UNCHANGED <<picked, container_str, chat_name, user_id, user_query, exact,
                   after, idx, msgs, rows, err>>

NextPick == CallPick \/ ListStep \/ ListExit \/ PickSelect

\* Conversation discovery and selection.
SpecPick == Init /\ [][NextPick]_vars

\* The call of pick_chat_container has returned or raised.
PickDone == pc = "done" /\ op = "pick_chat_container"

\* The name under which the n-th conversation of the input is listed.
ListedName(n) == IF given.m[n].name = "" THEN NoName ELSE given.m[n].name

\* The first of the places at (0: none).
FirstGiven(at) == IF at = {} THEN 0 ELSE Least(at)

\* The places of the conversations of the input.
Places == 1..Len(given.m)

\* pick_chat_container returned the n-th conversation of the input.
PickedIs(n) ==
    /\ err = "none"
    /\ picked.name = ListedName(n)
    /\ picked.obj = ChatText(given.m[n].name, n)

\* C7: without an id and without a name query the first conversation whose
\* name is not a self-notes name is returned, or the very first one when
\* all of them are.
C7_DefaultSkipsSelfNotes ==
    (PickDone /\ chat_id = NoneInt /\ chat_query \in {NoneStr, ""} /\ given.m # <<>>)
        => LET notSaved == FirstGiven({n \in Places : ~given.m[n].saved})
           IN  PickedIs(IF notSaved # 0 THEN notSaved ELSE 1)

\* Of "Saved Messages" and "Alice", in that order, Alice was returned.
C7_Witness ==
    /\ PickDone /\ chat_id = NoneInt /\ chat_query = NoneStr
    /\ Len(given.m) = 2
    /\ given.m[1].name = "Saved Messages" /\ given.m[2].name = "Alice"
    /\ picked.name = "Alice"

\* The normalized lower-case form of the name query.
QueryNorm == (CHOOSE x \in PickQueries : x.q = chat_query).norm

\* C9: a name query returns the first conversation whose name equals it,
\* else the first whose name contains it, else the first whose name starts
\* with it, and fails only when there is none of these.
C9_NameTiersInOrder ==
    (PickDone /\ chat_id = NoneInt /\ chat_query \notin {NoneStr, ""} /\ given.m # <<>>)
        => LET equals == FirstGiven({n \in Places : given.m[n].norm = QueryNorm})
               holds  == FirstGiven({n \in Places : Contains(given.m[n].norm, QueryNorm)})
               starts == FirstGiven({n \in Places : StartsWith(given.m[n].norm, QueryNorm)})
           IN  IF equals # 0 THEN PickedIs(equals)
               ELSE IF holds # 0 THEN PickedIs(holds)
               ELSE IF starts # 0 THEN PickedIs(starts)
               ELSE err = "NotFoundByName"

\* The second conversation was returned for its equal name, although the
\* name of the first contains the query.
C9_Witness ==
    /\ PickDone /\ chat_id = NoneInt /\ chat_query = "al"
    /\ Len(given.m) = 2
    /\ given.m[1].name = "Alice" /\ given.m[2].name = " Al"
    /\ picked.name = " Al"

-----------------------------------------------------------------------------
(* collect_rows_from_container: the call, and C4, C5, C6 and C8 *)

\* collect_rows_from_container(container_str, chat_name, user_id,
\* user_query, exact) on a conversation of up to MaxMsgs message fragments.
CallCollect ==
    /\ pc = "idle"
    /\ \E seq \in Seqs(PoolMessages \cup {NumberInText}, MaxMsgs) :
          /\ ParseEnter(ContainerText(seq), "parsed")
          /\ given' = [g |-> <<>>, m |-> seq]
    /\ \E f \in AuthorFilters :
          /\ user_id' = f.uid
          /\ user_query' = f.uq
          /\ exact' = f.ex
    /\ op' = "collect_rows_from_container"
    /\ chat_name' = "Chat"
    /\ rows' = <<>>
    /\ err' = "none"
    /\ UNCHANGED <<raw, chat_query, chat_id, i, k, out, picked>>

NextCollect == CallCollect \/ ParseStep \/ ParseExit \/ CollectRows

\* Indexing and row correlation of one conversation.
SpecCollect == Init /\ [][NextCollect]_vars

Next ==
    \/ CallParse \/ ParseStep \/ ParseExit
    \/ CallList \/ ListStep \/ ListExit
    \/ CallPick \/ PickSelect
    \/ CallCollect \/ CollectRows

\* Every operation, called once on any of its inputs.
Spec == Init /\ [][Next]_vars

\* The call of collect_rows_from_container has returned its rows.
CollectReturned == pc = "done" /\ op = "collect_rows_from_container" /\ err = "none"

\* The message fragments of the input that are messages of the conversation.
IsMessage(d) == d.ok /\ d.isMsg

\* The place of the last message of the input whose id stands for n (0: none).
LastWithId(n) ==
    IF n = NoneInt THEN 0
    ELSE LET at == {p \in 1..Len(given.m) : IsMessage(given.m[p]) /\ given.m[p].key = n}
         IN  IF at = {} THEN 0 ELSE CHOOSE p \in at : \A q \in at : q <= p

\* The row r has the reply fields that the message fragment d calls for.
ReplyFieldsOf(r, d) ==
    /\ r.reply_to_id = d.reply
    /\ IF LastWithId(d.target) # 0
       THEN LET e == given.m[LastWithId(d.target)] IN
            /\ r.reply_from = e.sender
            /\ r.reply_date = e.rdate
            /\ r.reply_text = e.flat
       ELSE /\ r.reply_from = ""
            /\ r.reply_date = [str |-> ""]
            /\ r.reply_text = ""

\* C4: the reply fields of a row are the sender, date and text of the
\* message of the same conversation that the reply id of its message names,
\* wherever that message stands, and are empty when there is none, the row
\* keeping the reply id.
C4_ReplyResolvedInConversation ==
    CollectReturned =>
        \A n \in 1..Len(rows) :
            \E p \in 1..Len(given.m) :
                /\ IsMessage(given.m[p])
                /\ given.m[p].flat = rows[n].text
                /\ ReplyFieldsOf(rows[n], given.m[p])

\* A reply to message 1 stands before message 1 and got its text.
C4_Witness ==
    /\ CollectReturned
    /\ Len(given.m) = 2 /\ given.m[1].key = 2 /\ given.m[2].key = 1
    /\ Len(rows) = 2
    /\ rows[1].reply_to_id = [int |-> 1]
    /\ rows[1].reply_text = "original"

\* The string an author id is matched against.
WantedAuthor == CASE user_id = 1 -> "user1" [] user_id = 11 -> "user11" [] OTHER -> ""

\* The message fragment d passes the author filter of the call.
IsByAuthor(d) ==
    IF user_id # NoneInt THEN d.fid = WantedAuthor
    ELSE IF exact THEN d.sender = (IF user_query = NoneStr THEN "" ELSE user_query)
    ELSE user_query = NoneStr \/ Contains(lower(d.sender), lower(user_query))

\* The text fields of the rows rs, in order.
RECURSIVE TextsOf(_)
TextsOf(rs) == IF rs = <<>> THEN <<>> ELSE <<Head(rs).text>> \o TextsOf(Tail(rs))

\* The flat texts of the message fragments seq, in order.
RECURSIVE FlatsOf(_)
FlatsOf(seq) == IF seq = <<>> THEN <<>> ELSE <<Head(seq).flat>> \o FlatsOf(Tail(seq))

\* C5: the rows are, in scan order, the messages that pass the author
\* filter and have text left after trimming, each with that text; a message
\* without such text gives no row.
C5_RowsHaveText ==
    CollectReturned =>
        LET Emitted(d) == IsMessage(d) /\ IsByAuthor(d) /\ d.flat # ""
        IN  /\ TextsOf(rows) = FlatsOf(SelectSeq(given.m, Emitted))
            /\ \A n \in 1..Len(rows) : rows[n].text # ""

\* A message of the wanted author with blank text, replying to message 1,
\* gave no row; message 1 after it gave one.
C5_Witness ==
    /\ CollectReturned /\ user_id = 1
    /\ Len(given.m) = 2 /\ given.m[1].key = 5 /\ given.m[2].key = 1
    /\ Len(rows) = 1
    /\ rows[1].text = "original"

\* C6: with an author id the rows are the messages whose from_id, as a
\* string, is "user" and the id in decimal, whatever the sender name, the
\* name fragment and the exact flag are.
C6_AuthorIdIsExact ==
    (CollectReturned /\ user_id # NoneInt) =>
        LET Emitted(d) == IsMessage(d) /\ d.fid = WantedAuthor /\ d.flat # ""
        IN  /\ TextsOf(rows) = FlatsOf(SelectSeq(given.m, Emitted))
            /\ \A n \in 1..Len(rows) : rows[n].from_id = WantedAuthor

\* With id 1 and the exact name "Alice": the message of user1 without a
\* name gave a row, the message of user11 named "Malice" none.
C6_Witness ==
    /\ CollectReturned /\ user_id = 1 /\ user_query = "Alice" /\ exact
    /\ Len(given.m) = 2 /\ given.m[1].key = 8 /\ given.m[2].key = NoneInt
    /\ Len(rows) = 1
    /\ rows[1].text = "anon"

\* C8: no operation ends in an error other than the one for a requested
\* conversation id or name that matches nothing.
C8_OnlySelectionNotFound == err \in {"none", "NotFoundById", "NotFoundByName"}

=============================================================================
